---------------------------- MODULE Spec2Model ----------------------------
(***************************************************************************)
(* Verification model of the conversify voice agent glue code:             *)
(*   - entrypoint                     (conversify/main.py)                 *)
(*   - ConfigManager.load_config      (conversify/utils/config.py)         *)
(*   - WhisperSTT / OpenAIWhisperSTT  (conversify/models/stt*.py)          *)
(*   - KokoroTTS / KokoroTTSStream    (conversify/models/tts.py)           *)
(*   - AgentMemoryManager             (conversify/core/memory.py)          *)
(*   - OllamaEmbeddingModel           (conversify/core/memory.py)          *)
(* Each component has its own specification over the shared variables; the *)
(* variables of the other components stay at their idle values.            *)
(***************************************************************************)
EXTENDS Integers, Sequences, FiniteSets, TLC

VARIABLES
    \* ---- entrypoint (main.py)
    epc,            \* position of the entrypoint coroutine
    elog,           \* external calls that have completed, in order
    ecfg,           \* the config["agent"] / config["vision"] flags it reads
    userdata_vad,   \* TRUE iff prewarm left a VAD in proc.userdata
    environ,        \* which of SIMLI_API_KEY / SIMLI_FACE_ID are set
    participant,    \* what wait_for_participant returns
    fault,          \* the external call that raises in this run ("none": no call raises)
    video_task,     \* "none" | "running"
    exc             \* exception the entrypoint left with ("none" if it did not raise)

entryVars == <<epc, elog, ecfg, userdata_vad, environ, participant, fault, video_task, exc>>

VARIABLES
    \* ---- ConfigManager (utils/config.py)
    toml,           \* what _load_toml_config finds: the parsed file, or a failure
    prompt_file,    \* the instructions file on disk: readable or not, and its text
    config,         \* self.config
    cresult         \* outcome of load_config: "pending" | "returned" | an exception type

configVars == <<toml, prompt_file, config, cresult>>

VARIABLES
    \* ---- WhisperSTT / OpenAIWhisperSTT (models/stt.py, models/stt_openai.py)
    stt_class,      \* which adapter this instance is
    opts,           \* self._opts: backend, language, model and model cache directory
    whisper_model,  \* self._model: "loaded", or None
    stt_update,     \* the last update_options call: its arguments, whether it raised
    model_loads,    \* the loader calls _initialize_model made since construction
    stt_in,         \* the last _recognize_impl call: its language argument, what the engine did
    stt_out         \* how that call ended: the event it returned or the exception it raised

sttVars == <<stt_class, opts, whisper_model, stt_update, model_loads, stt_in, stt_out>>

VARIABLES
    \* ---- KokoroTTS / KokoroTTSStream (models/tts.py)
    tts_opts,       \* KokoroTTS._opts
    stream_pc,      \* position of the stream: "none" before synthesize, then inside _run
    stream_opts,    \* KokoroTTSStream._opts
    requests,       \* speech requests issued by the stream
    pending,        \* audio chunks the open response has still to deliver
    emitter,        \* calls made on the output emitter, in order
    tts_errors,     \* framework errors _run has raised, in order
    opts_aliased    \* TRUE iff KokoroTTSStream._opts is the very object KokoroTTS._opts

ttsVars == <<tts_opts, stream_pc, stream_opts, requests, pending, emitter, tts_errors,
             opts_aliased>>

VARIABLES
    \* ---- AgentMemoryManager (core/memory.py)
    memory_config,    \* config["memory"]: use, load_last_n
    memory_manager,   \* self.memory_manager: None, or "ready"
    dir_created,      \* TRUE iff os.makedirs(memory_dir_abs) ran
    mop,              \* the method called on the manager ("none" before any call)
    mpc,              \* "new" before __init__, "idle", "loop" inside save_memory, or
                      \* "raised" when save_memory was left by an exception
    items,            \* chat_ctx.items of the save_memory call
    index,            \* i, the index of the save_memory loop
    iterations,       \* iterations of the save_memory loop so far
    processed_count,  \* the counter of save_memory
    attempts,         \* interactions save_memory tried to add: the positions of user_msg
                      \* and assistant_msg (0: None), prompt, output, what raised
    lib_calls,        \* calls made to the memory library by the current method
    history,          \* what load_history returned to the load_memory call
    update_calls,     \* arguments load_memory passed to update_chat_ctx_func
    knowledge         \* the value get_relevant_knowledge returned

memVars == <<memory_config, memory_manager, dir_created, mop, mpc, items, index, iterations,
             processed_count, attempts, lib_calls, history, update_calls, knowledge>>

VARIABLES
    \* ---- WhisperSTT._initialize_model (models/stt.py)
    platform,        \* what platform.system() / platform.machine() do on this host
    whisper_config,  \* config["stt"]["whisper"]: backend, device, compute_type
    selection,       \* what _default_device / _default_compute returned (None: not called)
    load_args        \* the arguments the engine was built with (engine "none": not built)

loadVars == <<platform, whisper_config, selection, load_args>>

VARIABLES
    \* ---- OllamaEmbeddingModel (core/memory.py)
    dimension,      \* self._dimension: None, or the cached length
    emb_in,         \* the last get_embedding call: its text, what the client did
    emb_out         \* how that call ended: the vector returned or the exception raised,
                    \* and the requests it sent to the embeddings endpoint

embVars == <<dimension, emb_in, emb_out>>

vars == <<entryVars, configVars, sttVars, ttsVars, memVars, loadVars, embVars>>

\* what the actions of one component leave alone
notEntry  == <<configVars, sttVars, ttsVars, memVars, loadVars, embVars>>
notConfig == <<entryVars, sttVars, ttsVars, memVars, loadVars, embVars>>
notSTT    == <<entryVars, configVars, ttsVars, memVars, loadVars, embVars>>
notTTS    == <<entryVars, configVars, sttVars, memVars, loadVars, embVars>>
notMem    == <<entryVars, configVars, sttVars, ttsVars, loadVars, embVars>>
notLoad   == <<entryVars, configVars, sttVars, ttsVars, memVars, embVars>>
notEmb    == <<entryVars, configVars, sttVars, ttsVars, memVars, loadVars>>

(***************************************************************************)
(* Generic helpers                                                         *)
(***************************************************************************)
None == "None"

\* number of occurrences of e in the sequence s
Count(s, e) == Cardinality({i \in DOMAIN s : s[i] = e})

\* index of the first occurrence of e in s, 0 when absent
Pos(s, e) == IF \E i \in DOMAIN s : s[i] = e
             THEN CHOOSE i \in DOMAIN s : s[i] = e /\ \A j \in 1..(i-1) : s[j] # e
             ELSE 0

\* e1 occurs in s, and before every e2
Before(s, e1, e2) == Pos(s, e1) > 0 /\ (Pos(s, e2) > 0 => Pos(s, e1) < Pos(s, e2))

\* Text is a sequence of characters; str.strip() removes the blanks at both ends
RECURSIVE LStrip(_)
LStrip(t) == IF t # <<>> /\ Head(t) = " " THEN LStrip(Tail(t)) ELSE t

RECURSIVE RStrip(_)
RStrip(t) == IF t # <<>> /\ t[Len(t)] = " " THEN RStrip(SubSeq(t, 1, Len(t) - 1)) ELSE t

Strip(t) == RStrip(LStrip(t))

(***************************************************************************)
(* entrypoint                                                              *)
(***************************************************************************)
\* external calls of the entrypoint that can raise
EntryFaults == {"none", "connect", "AsyncClient", "OpenaiLLM", "WhisperSTT", "KokoroTTS",
                "AgentSession", "wait_for_participant", "ConversifyAgent",
                "avatar.start", "session.start", "background_audio.start"}

EntryTerminal == {"done", "returned", "raised"}

EntryInit ==
    /\ epc = "start"
    /\ elog = <<>>
    /\ ecfg \in [use_eou : BOOLEAN, vision_use : BOOLEAN, use_avatar : BOOLEAN,
                 use_background_audio : BOOLEAN]
    /\ userdata_vad \in BOOLEAN
    /\ environ \in [SIMLI_API_KEY : BOOLEAN, SIMLI_FACE_ID : BOOLEAN]
    /\ participant \in {"test-participant", None}
    /\ fault \in EntryFaults
    /\ video_task = "none"
    /\ exc = "none"

EntryIdle ==
    /\ epc = "idle"
    /\ elog = <<>>
    /\ ecfg = [use_eou |-> FALSE, vision_use |-> FALSE, use_avatar |-> FALSE,
               use_background_audio |-> FALSE]
    /\ userdata_vad = FALSE
    /\ environ = [SIMLI_API_KEY |-> FALSE, SIMLI_FACE_ID |-> FALSE]
    /\ participant = None
    /\ fault = "none"
    /\ video_task = "none"
    /\ exc = "none"

\* the entrypoint leaves with exception e
Raise(e) ==
    /\ epc' = "raised"
    /\ exc' = e
    /\ UNCHANGED elog

\* one external call: it raises when it is this run's fault, else it completes
Call(ev, next) ==
    IF fault = ev
    THEN Raise("Exception")
    ELSE /\ elog' = Append(elog, ev)
         /\ epc' = next
         /\ exc' = exc

\* await ctx.connect()
Connect ==
    /\ epc = "start"
    /\ Call("connect", "connected")
    /\ UNCHANGED <<ecfg, userdata_vad, environ, participant, fault, video_task, notEntry>>

\* llm_client = AsyncClient(...), re-raised on failure
CreateLLMClient ==
    /\ epc = "connected"
    /\ Call("AsyncClient", "client")
    /\ UNCHANGED <<ecfg, userdata_vad, environ, participant, fault, video_task, notEntry>>

\* mutant of CheckVAD: the missing-VAD early return is forgotten
CheckVAD_NoReturn ==
    /\ epc = "client"
    /\ epc' = "vad"
    /\ UNCHANGED <<elog, exc, ecfg, userdata_vad, environ, participant, fault, video_task, notEntry>>

\* mutant of CheckVAD: the test is inverted
CheckVAD_Inverted ==
    /\ epc = "client"
    /\ epc' = IF userdata_vad THEN "returned" ELSE "vad"
    /\ UNCHANGED <<elog, exc, ecfg, userdata_vad, environ, participant, fault, video_task, notEntry>>

\* vad = ctx.proc.userdata.get("vad"); if not vad: return
CheckVAD ==
    /\ epc = "client"
    /\ epc' = IF userdata_vad THEN "vad" ELSE "returned"
    /\ UNCHANGED <<elog, exc, ecfg, userdata_vad, environ, participant, fault, video_task, notEntry>>

\* the adapters are built as arguments of AgentSession(...), in argument order
AdapterOrder == <<"OpenaiLLM", "WhisperSTT", "KokoroTTS", "AgentSession">>

\* the longest prefix of s with no faulty call
RECURSIVE Completed(_)
Completed(s) ==
    IF s = <<>> \/ Head(s) = fault THEN <<>> ELSE <<Head(s)>> \o Completed(Tail(s))

\* mutant of CreateSession: the session is created without its adapters
CreateSession_NoAdapters ==
    /\ epc = "vad"
    /\ IF fault = "AgentSession"
       THEN Raise("Exception")
       ELSE elog' = Append(elog, "AgentSession") /\ epc' = "session" /\ exc' = exc
    /\ UNCHANGED <<ecfg, userdata_vad, environ, participant, fault, video_task, notEntry>>

\* session = AgentSession(vad=vad, llm=OpenaiLLM(...), stt=WhisperSTT(...), tts=KokoroTTS(...), ...)
CreateSession ==
    /\ epc = "vad"
    /\ LET done == Completed(AdapterOrder) IN
         /\ elog' = elog \o done
         /\ IF Len(done) = Len(AdapterOrder)
            THEN epc' = "session" /\ exc' = exc
            ELSE epc' = "raised" /\ exc' = "Exception"
    /\ UNCHANGED <<ecfg, userdata_vad, environ, participant, fault, video_task, notEntry>>

\* if vision_config["use"]: video_task = asyncio.create_task(...); metrics_callback(session)
StartVideo ==
    /\ epc = "session"
    /\ video_task' = IF ecfg.vision_use THEN "running" ELSE video_task
    /\ elog' = (IF ecfg.vision_use THEN Append(elog, "create_task") ELSE elog)
               \o <<"metrics_callback">>
    /\ epc' = "metrics"
    /\ UNCHANGED <<exc, ecfg, userdata_vad, environ, participant, fault, notEntry>>

\* participant = await ctx.wait_for_participant()
WaitForParticipant ==
    /\ epc = "metrics"
    /\ Call("wait_for_participant", "joined")
    /\ UNCHANGED <<ecfg, userdata_vad, environ, participant, fault, video_task, notEntry>>

\* agent = ConversifyAgent(participant_identity=participant.identity, ...)
CreateAgent ==
    /\ epc = "joined"
    /\ IF participant = None
       THEN Raise("AttributeError")
       ELSE Call("ConversifyAgent", "agent")
    /\ UNCHANGED <<ecfg, userdata_vad, environ, participant, fault, video_task, notEntry>>

\* mutant of RegisterShutdown: the callback is registered a second time
RegisterShutdown_Twice ==
    /\ epc = "agent"
    /\ elog' = elog \o <<"add_shutdown_callback", "add_shutdown_callback">>
    /\ epc' = "registered"
    /\ UNCHANGED <<exc, ecfg, userdata_vad, environ, participant, fault, video_task, notEntry>>

\* ctx.add_shutdown_callback(lambda: shutdown_callback(agent, video_task))
RegisterShutdown ==
    /\ epc = "agent"
    /\ elog' = Append(elog, "add_shutdown_callback")
    /\ epc' = "registered"
    /\ UNCHANGED <<exc, ecfg, userdata_vad, environ, participant, fault, video_task, notEntry>>

\* mutant of StartAvatar: the environment is not checked
StartAvatar_NoCheck ==
    /\ epc = "registered"
    /\ IF ~ecfg.use_avatar
       THEN epc' = "avatar" /\ UNCHANGED <<elog, exc>>
       ELSE Call("avatar.start", "avatar")
    /\ UNCHANGED <<ecfg, userdata_vad, environ, participant, fault, video_task, notEntry>>

\* if config["agent"]["use_avatar"]: check the environment, start the avatar
StartAvatar ==
    /\ epc = "registered"
    /\ IF ~ecfg.use_avatar
       THEN epc' = "avatar" /\ UNCHANGED <<elog, exc>>
       ELSE IF ~environ.SIMLI_API_KEY \/ ~environ.SIMLI_FACE_ID
            THEN Raise("RuntimeError")
            ELSE Call("avatar.start", "avatar")
    /\ UNCHANGED <<ecfg, userdata_vad, environ, participant, fault, video_task, notEntry>>

\* await session.start(agent=agent, room=ctx.room, ...)
StartSession ==
    /\ epc = "avatar"
    /\ Call("session.start", "started")
    /\ UNCHANGED <<ecfg, userdata_vad, environ, participant, fault, video_task, notEntry>>

\* if config["agent"]["use_background_audio"]: await background_audio.start(...)
StartBackgroundAudio ==
    /\ epc = "started"
    /\ IF ecfg.use_background_audio
       THEN Call("background_audio.start", "done")
       ELSE epc' = "done" /\ UNCHANGED <<elog, exc>>
    /\ UNCHANGED <<ecfg, userdata_vad, environ, participant, fault, video_task, notEntry>>

EntryNext ==
    \/ Connect
    \/ CreateLLMClient
    \/ CheckVAD
    \/ CreateSession
    \/ StartVideo
    \/ WaitForParticipant
    \/ CreateAgent
    \/ RegisterShutdown
    \/ StartAvatar
    \/ StartSession
    \/ StartBackgroundAudio


(***************************************************************************)
(* Claims about entrypoint                                                 *)
(***************************************************************************)
Adapters == {"OpenaiLLM", "WhisperSTT", "KokoroTTS"}

SessionStarted == Count(elog, "session.start") > 0

\* C2 as stated: in a run that reaches session start the order is connect, wait for a
\* participant, construct the adapters (LLM, STT, TTS), start the session.
C2_OrderAsClaimed ==
    SessionStarted =>
        /\ Before(elog, "connect", "wait_for_participant")
        /\ \A a \in Adapters :
              /\ Before(elog, "wait_for_participant", a)
              /\ Before(elog, a, "session.start")

\* C2 amended: in a run that reaches session start the order is connect, construct the
\* adapters (LLM, STT, TTS), wait for a participant, start the session.
C2_Order ==
    SessionStarted =>
        /\ \A a \in Adapters :
              /\ Before(elog, "connect", a)
              /\ Before(elog, a, "wait_for_participant")
        /\ Before(elog, "wait_for_participant", "session.start")

C2_Witness ==
    /\ SessionStarted
    /\ \A a \in Adapters : Count(elog, a) = 1

\* a run in which nothing the entrypoint depends on is missing or fails
ValidRun ==
    /\ fault = "none"
    /\ userdata_vad
    /\ participant # None
    /\ ecfg.use_avatar => (environ.SIMLI_API_KEY /\ environ.SIMLI_FACE_ID)

\* C3: session.start is called at most once per run, and only after ctx.connect has
\* completed, a prewarmed VAD was found and wait_for_participant returned a participant;
\* a run with a participant and a valid configuration does not raise, cannot get stuck
\* before session.start, and ends with session.start called.
C3_StartOnceAfterPrerequisites ==
    /\ Count(elog, "session.start") <= 1
    /\ SessionStarted =>
          /\ Before(elog, "connect", "session.start")
          /\ userdata_vad
          /\ Before(elog, "wait_for_participant", "session.start")
          /\ participant # None
    /\ ValidRun =>
          /\ exc = "none" /\ epc # "raised" /\ epc # "returned"
          /\ epc # "done" => ENABLED EntryNext
          /\ epc = "done" => Count(elog, "session.start") = 1

C3_Witness ==
    /\ ValidRun
    /\ epc = "done"
    /\ Count(elog, "session.start") = 1

\* C18: in a run without a prewarmed VAD the entrypoint never creates an AgentSession,
\* never starts the video task, never waits for a participant, never registers a
\* shutdown callback and never starts a session; when connect and the construction of
\* the LLM client have not raised, it ends by returning, with nothing raised, after
\* connecting. A run with a prewarmed VAD never takes that return.
C18_NoVADReturns ==
    /\ ~userdata_vad =>
          /\ \A ev \in {"AgentSession", "create_task", "wait_for_participant",
                         "add_shutdown_callback", "session.start"} : Count(elog, ev) = 0
          /\ video_task = "none"
          /\ (epc \in EntryTerminal /\ fault \notin {"connect", "AsyncClient"}) =>
                /\ epc = "returned"
                /\ exc = "none"
                /\ Count(elog, "connect") = 1
          /\ epc \notin EntryTerminal => ENABLED EntryNext
    /\ epc = "returned" => ~userdata_vad

\* the video task is configured, nothing fails, and the run has returned
C18_Witness ==
    /\ ~userdata_vad
    /\ ecfg.vision_use
    /\ fault = "none"
    /\ epc = "returned"
    /\ elog = <<"connect", "AsyncClient">>

\* SIMLI_API_KEY or SIMLI_FACE_ID is missing from the environment
SimliMissing == ~environ.SIMLI_API_KEY \/ ~environ.SIMLI_FACE_ID

\* the entrypoint is past the avatar step
PastAvatarStep == epc \in {"avatar", "started", "done"} \/ SessionStarted

\* C19: with use_avatar and SIMLI_API_KEY or SIMLI_FACE_ID missing, neither the avatar
\* nor the agent session is ever started, and a run that reaches the avatar step ends
\* there with RuntimeError; with use_avatar and both present, the avatar has been
\* started, once and before session.start, in every run that is past the avatar step.
C19_AvatarGuard ==
    /\ (ecfg.use_avatar /\ SimliMissing) =>
          /\ Count(elog, "avatar.start") = 0
          /\ Count(elog, "session.start") = 0
          /\ ~PastAvatarStep
          /\ (Count(elog, "add_shutdown_callback") > 0 /\ epc # "registered") =>
                epc = "raised" /\ exc = "RuntimeError"
    /\ (ecfg.use_avatar /\ ~SimliMissing /\ PastAvatarStep) =>
          /\ Count(elog, "avatar.start") = 1
          /\ Before(elog, "avatar.start", "session.start")

\* only SIMLI_FACE_ID is missing, and the run has reached the avatar step
C19_Witness ==
    /\ ecfg.use_avatar
    /\ environ = [SIMLI_API_KEY |-> TRUE, SIMLI_FACE_ID |-> FALSE]
    /\ fault = "none"
    /\ epc = "raised"
    /\ exc = "RuntimeError"
    /\ Count(elog, "add_shutdown_callback") = 1

\* session.start has returned, is the next call of the run, or has raised
SessionStarting ==
    \/ SessionStarted
    \/ epc = "avatar"
    \/ (fault = "session.start" /\ epc = "raised" /\ exc = "Exception")

\* C20: the shutdown callback is never registered twice, and in every run that calls
\* session.start it has been registered exactly once, after wait_for_participant
\* returned and the agent was built, and before session.start.
C20_ShutdownRegistered ==
    /\ Count(elog, "add_shutdown_callback") <= 1
    /\ SessionStarting =>
          /\ Count(elog, "add_shutdown_callback") = 1
          /\ Pos(elog, "wait_for_participant") > 0
          /\ Pos(elog, "wait_for_participant") < Pos(elog, "ConversifyAgent")
          /\ Pos(elog, "ConversifyAgent") < Pos(elog, "add_shutdown_callback")
          /\ SessionStarted =>
                Pos(elog, "add_shutdown_callback") < Pos(elog, "session.start")

\* an avatar run with the video task: the session has started
C20_Witness ==
    /\ SessionStarted
    /\ ecfg.use_avatar /\ ecfg.vision_use
    /\ video_task = "running"
    /\ Count(elog, "add_shutdown_callback") = 1

\* C23 as stated: whenever the video task is running, the shutdown callback that
\* receives it has been registered; in particular an entrypoint that has raised while
\* the video task runs has left a registered cleanup behind.
C23_CleanupRegistered ==
    video_task = "running" => Count(elog, "add_shutdown_callback") > 0

\* the part of C23 that holds: the task is created before the callback is registered,
\* and from the registration on a running video task has its callback
C23_RegisteredAfterAgent ==
    /\ Count(elog, "add_shutdown_callback") > 0 =>
          /\ Pos(elog, "ConversifyAgent") > 0
          /\ Count(elog, "create_task") > 0 =>
                Pos(elog, "create_task") < Pos(elog, "add_shutdown_callback")
    /\ (video_task = "running" /\ Pos(elog, "ConversifyAgent") > 0
           /\ epc \notin {"agent", "raised"}) =>
          Count(elog, "add_shutdown_callback") = 1

(***************************************************************************)
(* ConfigManager                                                           *)
(***************************************************************************)
\* A configuration value that holds a path: kind "none" is an absent key, kind "str" a
\* string, absolute or not, made of path segments ("" is the relative path of no segment).
Unset    == [kind |-> "none", abs |-> FALSE, segs |-> <<>>]
EmptyStr == [kind |-> "str", abs |-> FALSE, segs |-> <<>>]
PathStrings == {[kind |-> "str", abs |-> FALSE, segs |-> <<"data">>],
                [kind |-> "str", abs |-> FALSE, segs |-> <<"..", "data">>],
                [kind |-> "str", abs |-> TRUE, segs |-> <<"var", "data">>],
                [kind |-> "str", abs |-> TRUE, segs |-> <<"var", "..", "data">>]}
PathValues == {Unset, EmptyStr} \cup PathStrings

\* Python truthiness of such a value: None and "" are falsy
Truthy(v) == v.kind = "str" /\ (v.abs \/ v.segs # <<>>)

\* os.path.isabs
isabs(v) == v.abs

\* os.path.join(a, b): an absolute b replaces a
join(a, b) == IF b.abs THEN b ELSE [kind |-> "str", abs |-> a.abs, segs |-> a.segs \o b.segs]

\* os.path.normpath on the segments: ".." removes the segment before it
RECURSIVE NormSegs(_, _)
NormSegs(done, rest) ==
    IF rest = <<>> THEN done
    ELSE IF Head(rest) = ".."
         THEN NormSegs(IF done = <<>> THEN done ELSE SubSeq(done, 1, Len(done) - 1), Tail(rest))
         ELSE NormSegs(Append(done, Head(rest)), Tail(rest))

\* the working directory os.path.abspath falls back on
Cwd == [kind |-> "str", abs |-> TRUE, segs |-> <<"cwd">>]

\* os.path.abspath
abspath(v) == LET j == join(Cwd, v) IN [kind |-> "str", abs |-> TRUE, segs |-> NormSegs(<<>>, j.segs)]

\* ConfigManager.project_root
project_root == [kind |-> "str", abs |-> TRUE, segs |-> <<"srv", "conversify">>]

\* mutant of _resolve_path: the path is returned as it was given
resolve_path_unjoined(relative_path) == relative_path

\* ConfigManager._resolve_path
resolve_path(relative_path) == abspath(join(project_root, relative_path))

PromptTexts == { <<>>, <<" ">>, <<"h", "i">>, <<" ", "h", "i", " ">>, <<"h", " ", "i", " ">> }

\* the [agent] section: missing, not a table, or a table with an optional instructions_file
AgentSections ==
    [kind : {"missing", "scalar"}, instructions_file : {Unset}, instructions : {<<>>},
     has_instructions : {FALSE}]
    \cup [kind : {"table"}, instructions_file : {Unset, EmptyStr} \cup {p \in PathStrings : ~p.abs},
          instructions : {<<>>}, has_instructions : {FALSE}]

\* the parsed TOML file, as far as the loader reads it
Configs ==
    [agent : AgentSections,
     memory : [use : BOOLEAN, dir : PathValues, dir_abs : {Unset}],
     whisper : [model_cache_directory : PathValues, warmup_audio : PathValues],
     logging : [file : PathValues, file_abs : {Unset}]]

EmptyConfig ==
    [agent |-> [kind |-> "missing", instructions_file |-> Unset, instructions |-> <<>>,
                has_instructions |-> FALSE],
     memory |-> [use |-> FALSE, dir |-> Unset, dir_abs |-> Unset],
     whisper |-> [model_cache_directory |-> Unset, warmup_audio |-> Unset],
     logging |-> [file |-> Unset, file_abs |-> Unset]]

ConfigInit ==
    /\ toml \in [ok : {TRUE}, table : Configs] \cup [ok : {FALSE}, table : {EmptyConfig}]
    /\ prompt_file \in [readable : {TRUE}, text : PromptTexts]
                       \cup [readable : {FALSE}, text : {<<>>}]
    /\ config = EmptyConfig
    /\ cresult = "pending"

ConfigIdle ==
    /\ toml = [ok |-> FALSE, table |-> EmptyConfig]
    /\ prompt_file = [readable |-> FALSE, text |-> <<>>]
    /\ config = EmptyConfig
    /\ cresult = "idle"

\* mutant of _load_prompt: the text is not stripped
load_prompt_raw(f) == f.text

\* ConfigManager._load_prompt: the stripped text of the file
load_prompt(f) == Strip(f.text)

\* the agent / prompt part of _resolve_paths_in_config
ResolveAgent(c) ==
    [c EXCEPT !.agent.instructions = load_prompt(prompt_file), !.agent.has_instructions = TRUE]

\* the memory part: dir_abs is set when memory.use
ResolveMemory(c) ==
    IF c.memory.use THEN [c EXCEPT !.memory.dir_abs = resolve_path(c.memory.dir)] ELSE c

\* one whisper path: resolved when set and not absolute
ResolveWhisperPath(v) == IF Truthy(v) /\ ~isabs(v) THEN resolve_path(v) ELSE v

\* the STT / whisper part
ResolveWhisper(c) ==
    [c EXCEPT !.whisper.model_cache_directory = ResolveWhisperPath(c.whisper.model_cache_directory),
              !.whisper.warmup_audio = ResolveWhisperPath(c.whisper.warmup_audio)]

\* the logging part: file_abs is set when logging.file is set and not absolute
ResolveLogging(c) ==
    IF Truthy(c.logging.file) /\ ~isabs(c.logging.file)
    THEN [c EXCEPT !.logging.file_abs = resolve_path(c.logging.file)]
    ELSE c

\* ConfigManager._resolve_paths_in_config on self.config = c: the exception it raises
\* ("none" when it returns) and self.config afterwards
resolve_paths_in_config(c) ==
    IF c.agent.kind # "table"
    THEN [exc |-> "KeyError", config |-> c]
    ELSE IF ~Truthy(c.agent.instructions_file)
    THEN [exc |-> "KeyError", config |-> c]
    ELSE IF ~prompt_file.readable
    THEN [exc |-> "OSError", config |-> c]
    ELSE LET c1 == ResolveAgent(c) IN
         IF c1.memory.use /\ ~Truthy(c1.memory.dir)
         THEN [exc |-> "KeyError", config |-> c1]
         ELSE [exc |-> "none", config |-> ResolveLogging(ResolveWhisper(ResolveMemory(c1)))]

\* ConfigManager.load_config
load_config ==
    /\ cresult = "pending"
    /\ IF ~toml.ok
       THEN cresult' = "TOMLError" /\ config' = config
       ELSE LET r == resolve_paths_in_config(toml.table) IN
              /\ config' = r.config
              /\ cresult' = IF r.exc = "none" THEN "returned" ELSE r.exc
    /\ UNCHANGED <<toml, prompt_file, notConfig>>

ConfigNext == load_config

(***************************************************************************)
(* Claims about ConfigManager                                              *)
(***************************************************************************)
WhisperPathKeys == {"model_cache_directory", "warmup_audio"}

IsSet(v) == v.kind = "str" /\ (v.abs \/ v.segs # <<>>)

\* C4: after a successful load_config memory.dir_abs is an absolute path when memory.use
\* is true, and each of stt.whisper.model_cache_directory and stt.whisper.warmup_audio is
\* absolute when it is set, is what it was when it was already absolute, and is still
\* unset when it was unset; memory.dir itself is not rewritten.
C4_PathsAbsolute ==
    cresult = "returned" =>
        /\ config.memory.use =>
              config.memory.dir_abs.kind = "str" /\ config.memory.dir_abs.abs
        /\ config.memory.dir = toml.table.memory.dir
        /\ \A k \in WhisperPathKeys :
              LET before == toml.table.whisper[k]
                  after  == config.whisper[k]
              IN /\ IsSet(before) => (after.kind = "str" /\ after.abs)
                 /\ before.abs => after = before
                 /\ ~IsSet(before) => after = before

C4_Witness ==
    /\ cresult = "returned"
    /\ config.memory.use /\ ~toml.table.memory.dir.abs
    /\ IsSet(toml.table.whisper.model_cache_directory)
    /\ ~toml.table.whisper.model_cache_directory.abs
    /\ toml.table.whisper.warmup_audio.abs
    /\ config.whisper.model_cache_directory # toml.table.whisper.model_cache_directory

\* r is t without the blanks at its two ends
IsStripOf(r, t) ==
    \E i \in 1..(Len(t) + 1) : \E j \in 0..Len(t) :
        /\ r = SubSeq(t, i, j)
        /\ \A k \in 1..(i - 1) : t[k] = " "
        /\ \A k \in (j + 1)..Len(t) : t[k] = " "
        /\ r # <<>> => (r[1] # " " /\ r[Len(r)] # " ")

AgentSectionBad == toml.table.agent.kind # "table"
InstructionsFileBad == ~AgentSectionBad /\ ~IsSet(toml.table.agent.instructions_file)
MemoryDirBad == toml.table.memory.use /\ ~IsSet(toml.table.memory.dir)

\* C10: for a configuration file that parses, load_config raises KeyError and returns no
\* configuration when the [agent] section is missing or is not a table, when
\* agent.instructions_file is missing or empty, or (the instructions file having been
\* read) when memory.use is true and memory.dir is not set; KeyError has no other cause;
\* otherwise, the instructions file being readable, load_config returns, and whenever it
\* returns agent.instructions holds the stripped text of the instructions file.
C10_KeyErrors ==
    (toml.ok /\ cresult # "pending") =>
        /\ (AgentSectionBad \/ InstructionsFileBad) => cresult = "KeyError"
        /\ (MemoryDirBad /\ prompt_file.readable) => cresult = "KeyError"
        /\ cresult = "KeyError" => (AgentSectionBad \/ InstructionsFileBad \/ MemoryDirBad)
        /\ (~AgentSectionBad /\ ~InstructionsFileBad /\ ~MemoryDirBad /\ prompt_file.readable)
              => cresult = "returned"
        /\ cresult = "returned" =>
              /\ config.agent.has_instructions
              /\ IsStripOf(config.agent.instructions, prompt_file.text)

C10_Witness ==
    /\ cresult = "returned"
    /\ toml.table.memory.use
    /\ config.agent.instructions = <<"h", " ", "i">>
    /\ prompt_file.text # config.agent.instructions

\* C24 as stated: after a successful load_config, whenever logging.file is set,
\* logging.file_abs is set and is the absolute path of that file, for a relative
\* logging.file (resolved against the project root) and for an absolute one (itself).
C24_FileAbsSet ==
    (cresult = "returned" /\ IsSet(toml.table.logging.file)) =>
        /\ IsSet(config.logging.file_abs)
        /\ config.logging.file_abs.abs
        /\ toml.table.logging.file.abs =>
              config.logging.file_abs = abspath(toml.table.logging.file)

\* the part of C24 that holds: the same for a logging.file that is set and relative;
\* logging.file itself is never rewritten
C24_FileAbsRelative ==
    cresult = "returned" =>
        /\ config.logging.file = toml.table.logging.file
        /\ (IsSet(toml.table.logging.file) /\ ~toml.table.logging.file.abs) =>
              /\ IsSet(config.logging.file_abs)
              /\ config.logging.file_abs.abs

(***************************************************************************)
(* dataclasses                                                             *)
(***************************************************************************)
\* mutant of replace: the object that was passed is returned
replace_none(o) == [opts |-> o, same_object |-> TRUE]

\* dataclasses.replace(o): a new object with the same field values
replace(o) == [opts |-> o, same_object |-> FALSE]

(***************************************************************************)
(* WhisperSTT and OpenAIWhisperSTT: _recognize_impl                        *)
(***************************************************************************)
\* longest list of segments the engine returns
MaxSegments == 2

SegmentTexts == { <<>>, <<"a">>, <<" ", "b">>, <<"c", " ">> }

SeqsUpTo(S, n) == UNION {[1..k -> S] : k \in 0..n}

\* the language argument of a call: not given, None, or a string
NOT_GIVEN == "NOT_GIVEN"
CallLanguages == {NOT_GIVEN, None, "", "fr"}

\* what the engine does in one call: the audio decodes or not, the transcription call
\* raises or returns; faster-whisper returns segments, the openai engine and the OpenAI
\* API a result of which the adapter reads the text
EngineRuns ==
    [audio_ok : {FALSE}, transcribe_ok : {FALSE}, segments : {<<>>},
     result : {[kind |-> "dict", has_text |-> FALSE, text |-> <<>>]}]
    \cup [audio_ok : {TRUE}, transcribe_ok : {FALSE}, segments : {<<>>},
          result : {[kind |-> "dict", has_text |-> FALSE, text |-> <<>>]}]
    \cup [audio_ok : {TRUE}, transcribe_ok : {TRUE}, segments : SeqsUpTo(SegmentTexts, MaxSegments),
          result : [kind : {"dict"}, has_text : {TRUE}, text : SegmentTexts]
                   \cup [kind : {"dict", "other"}, has_text : {FALSE}, text : {<<>>}]]

NoRun == [language |-> NOT_GIVEN,
          run |-> [audio_ok |-> FALSE, transcribe_ok |-> FALSE, segments |-> <<>>,
                   result |-> [kind |-> "dict", has_text |-> FALSE, text |-> <<>>]]]

NoOutcome == [kind |-> "none", exc |-> "none", cause |-> "none", type |-> "none",
              alternatives |-> <<>>]

\* the arguments of WhisperSTT.update_options: each is None (the default) or a string
WhisperModelArgs == {None, "", "small"}
WhisperLanguageArgs == {None, "", "fr"}
WhisperDirArgs == {None, "/models"}

\* no update_options call yet
NoUpdate ==
    [kind |-> "none", model |-> None, language |-> None,
     model_cache_directory |-> None, raised |-> FALSE]

STTInit ==
    /\ stt_class \in {"WhisperSTT", "OpenAIWhisperSTT"}
    /\ opts \in [backend : IF stt_class = "WhisperSTT" THEN {"faster-whisper", "openai"}
                                                        ELSE {"api"},
                  language : {"en", "de"}, model : {"base"},
                  model_cache_directory : {None}]
    /\ whisper_model \in IF stt_class = "WhisperSTT" THEN {"loaded", None} ELSE {None}
    /\ stt_update = NoUpdate
    /\ model_loads = <<>>
    /\ stt_in = NoRun
    /\ stt_out = NoOutcome

STTIdle ==
    /\ stt_class = "idle"
    /\ opts = [backend |-> "faster-whisper", language |-> "en", model |-> "base",
               model_cache_directory |-> None]
    /\ whisper_model = None
    /\ stt_update = NoUpdate
    /\ model_loads = <<>>
    /\ stt_in = NoRun
    /\ stt_out = NoOutcome

\* sep.join(parts)
RECURSIVE Join(_, _)
Join(sep, parts) ==
    IF parts = <<>> THEN <<>>
    ELSE IF Len(parts) = 1 THEN parts[1]
    ELSE parts[1] \o sep \o Join(sep, Tail(parts))

\* mutant of JoinSegments: the segment texts are joined without stripping them
JoinSegments_Unstripped(segments) == Join(<<" ">>, segments)

\* " ".join(s.text.strip() for s in segments)
JoinSegments(segments) == Join(<<" ">>, [i \in DOMAIN segments |-> Strip(segments[i])])

\* result.get("text", "").strip() if isinstance(result, dict) else ""
ResultText(result) ==
    IF result.kind = "dict" THEN (IF result.has_text THEN Strip(result.text) ELSE <<>>)
    ELSE <<>>

\* WhisperSTT._recognize_impl: NotGivenOr[str] to str | None
ToLang(language) == IF language = NOT_GIVEN THEN None ELSE language

\* WhisperSTT._sanitize_options: the language of the copy of the options
sanitize_options(language) ==
    IF language # None /\ language # "" THEN language ELSE opts.language

\* self._opts after _sanitize_options: the override is written to the object that
\* dataclasses.replace returned
sanitize_options_stored(language) ==
    IF replace(opts).same_object /\ language # None /\ language # ""
    THEN [opts EXCEPT !.language = language]
    ELSE opts

\* language or self._opts.language
LanguageOr(language) ==
    IF language # None /\ language # "" /\ language # NOT_GIVEN THEN language ELSE opts.language

\* stt.SpeechEvent(type=FINAL_TRANSCRIPT, alternatives=[stt.SpeechData(text=..., language=...)])
SpeechEvent(text, language) ==
    [kind |-> "event", exc |-> "none", cause |-> "none", type |-> "FINAL_TRANSCRIPT",
     alternatives |-> << [text |-> text, language |-> language] >>]

\* mutant of WrapError: the original exception is let through
WrapError_Reraise(e) ==
    [kind |-> "raised", exc |-> e, cause |-> e, type |-> "none", alternatives |-> <<>>]

\* except Exception as e: raise APIConnectionError() from e
WrapError(e) ==
    [kind |-> "raised", exc |-> "APIConnectionError", cause |-> e, type |-> "none",
     alternatives |-> <<>>]

\* the body of WhisperSTT._recognize_impl for one engine run
WhisperRecognize(language, run) ==
    LET lang == ToLang(language)
        options_language == sanitize_options(lang)
    IN IF ~run.audio_ok THEN WrapError("DecodeError")
       ELSE IF whisper_model = None THEN WrapError("RuntimeError")
       ELSE IF ~run.transcribe_ok THEN WrapError("TranscribeError")
       ELSE IF opts.backend = "faster-whisper"
            THEN SpeechEvent(JoinSegments(run.segments), options_language)
            ELSE SpeechEvent(ResultText(run.result), options_language)

\* the body of OpenAIWhisperSTT._recognize_impl for one API call
OpenAIRecognize(language, run) ==
    IF ~run.audio_ok THEN WrapError("DecodeError")
    ELSE IF ~run.transcribe_ok THEN WrapError("TranscribeError")
    ELSE SpeechEvent(IF run.result.has_text THEN run.result.text ELSE <<>>,
                     LanguageOr(language))

\* WhisperSTT._recognize_impl (it writes nothing to the instance, so calls are
\* independent of each other: a behaviour holds one call)
WhisperRecognizeImpl ==
    /\ stt_class = "WhisperSTT"
    /\ stt_out.kind = "none"
    /\ \E language \in CallLanguages, run \in EngineRuns :
         /\ stt_in' = [language |-> language, run |-> run]
         /\ stt_out' = WhisperRecognize(language, run)
         /\ opts' = sanitize_options_stored(ToLang(language))
    /\ UNCHANGED <<stt_class, whisper_model, stt_update, model_loads, notSTT>>

\* OpenAIWhisperSTT._recognize_impl
OpenAIRecognizeImpl ==
    /\ stt_class = "OpenAIWhisperSTT"
    /\ stt_out.kind = "none"
    /\ \E language \in CallLanguages \ {NOT_GIVEN}, run \in EngineRuns :
         /\ run.result.kind = "dict"
         /\ stt_in' = [language |-> language, run |-> run]
         /\ stt_out' = OpenAIRecognize(language, run)
    /\ UNCHANGED <<stt_class, opts, whisper_model, stt_update, model_loads, notSTT>>

\* `if x:` for an argument that is None or a string
IsGiven(x) == x # None /\ x # ""

\* mutant of reinitialize: every call reloads the model
reinitialize_always(model, model_cache_directory) == TRUE

\* update_options: the reinitialize flag after the three assignments
reinitialize(model, model_cache_directory) ==
    IsGiven(model) \/ IsGiven(model_cache_directory)

\* update_options: self._opts after the three conditional assignments
UpdatedOptions(model, language, model_cache_directory) ==
    [opts EXCEPT
       !.model = IF IsGiven(model) THEN model ELSE @,
       !.model_cache_directory =
           IF IsGiven(model_cache_directory) THEN model_cache_directory ELSE @,
       !.language = IF IsGiven(language) THEN language ELSE @]

\* _initialize_faster_whisper / _initialize_openai_whisper: what the loader is given
\* of the options update_options can change
LoaderCall(o) ==
    [model |-> o.model,
     download_root |-> IF IsGiven(o.model_cache_directory)
                       THEN o.model_cache_directory ELSE None]

\* WhisperSTT.update_options(model=, language=, model_cache_directory=); when it
\* reloads, the loader returns (load_ok) or raises, and self._model is assigned only
\* when it returns
WhisperUpdateOptionsWith(model, language, model_cache_directory, load_ok) ==
    /\ stt_class = "WhisperSTT"
    /\ stt_out.kind = "none"
    /\ stt_update.kind = "none"
    /\ opts' = UpdatedOptions(model, language, model_cache_directory)
    /\ IF reinitialize(model, model_cache_directory)
       THEN /\ model_loads' = Append(model_loads, LoaderCall(opts'))
            /\ whisper_model' = IF load_ok THEN "loaded" ELSE whisper_model
       ELSE UNCHANGED <<model_loads, whisper_model>>
    /\ stt_update' = [kind |-> "call", model |-> model, language |-> language,
                      model_cache_directory |-> model_cache_directory,
                      raised |-> reinitialize(model, model_cache_directory) /\ ~load_ok]
    /\ UNCHANGED <<stt_class, stt_in, stt_out, notSTT>>

\* a behaviour holds one update_options call, made before its recognition call
WhisperUpdateOptions ==
    \E model \in WhisperModelArgs, language \in WhisperLanguageArgs,
       model_cache_directory \in WhisperDirArgs, load_ok \in BOOLEAN :
        WhisperUpdateOptionsWith(model, language, model_cache_directory, load_ok)

STTNext == WhisperRecognizeImpl \/ OpenAIRecognizeImpl \/ WhisperUpdateOptions

(***************************************************************************)
(* Claims about _recognize_impl                                            *)
(***************************************************************************)
\* the text without its blank ends, as the unique r with IsStripOf(r, t)
Stripped(t) ==
    CHOOSE r \in {SubSeq(t, i, j) : i \in 1..(Len(t) + 1), j \in 0..Len(t)} : IsStripOf(r, t)

\* the stripped texts with one blank between consecutive ones, built from the right
RECURSIVE SpacedTexts(_)
SpacedTexts(segments) ==
    IF segments = <<>> THEN <<>>
    ELSE IF Len(segments) = 1 THEN Stripped(segments[1])
    ELSE SpacedTexts(SubSeq(segments, 1, Len(segments) - 1))
         \o <<" ">> \o Stripped(segments[Len(segments)])

\* the language the claim expects: the language of the call when one is given
ExpectedLanguage ==
    IF stt_in.language \in {NOT_GIVEN, None, ""} THEN opts.language ELSE stt_in.language

WhisperSucceeded == stt_class = "WhisperSTT" /\ stt_out.kind = "event"

OneFinalTranscript ==
    /\ stt_out.type = "FINAL_TRANSCRIPT"
    /\ Len(stt_out.alternatives) = 1
    /\ stt_out.alternatives[1].language = ExpectedLanguage

\* C5 as stated: a successful WhisperSTT._recognize_impl returns one FINAL_TRANSCRIPT event
\* with one alternative, whose text is the stripped segment texts joined by single spaces
\* and whose language is the language of the call when given, else the configured one.
C5_TranscriptAsClaimed ==
    WhisperSucceeded =>
        /\ OneFinalTranscript
        /\ stt_out.alternatives[1].text = SpacedTexts(stt_in.run.segments)

\* C5 amended: the same, with the text depending on the backend: with faster-whisper it
\* is the stripped segment texts joined by single spaces ("" for no segments), with the
\* openai backend it is the stripped text of the engine's result ("" when the result is
\* not a dict or has no text), whatever the result's segments are.
C5_Transcript ==
    WhisperSucceeded =>
        /\ OneFinalTranscript
        /\ opts.backend = "faster-whisper" =>
              stt_out.alternatives[1].text = SpacedTexts(stt_in.run.segments)
        /\ opts.backend = "openai" =>
              stt_out.alternatives[1].text =
                  (IF stt_in.run.result.kind = "dict" /\ stt_in.run.result.has_text
                   THEN Stripped(stt_in.run.result.text) ELSE <<>>)

C5_Witness ==
    /\ WhisperSucceeded
    /\ opts.backend = "faster-whisper"
    /\ stt_in.run.segments = << <<" ", "b">>, <<"c", " ">> >>
    /\ stt_out.alternatives[1].text = <<"b", " ", "c">>
    /\ stt_in.language = "fr" /\ opts.language = "en"
    /\ stt_out.alternatives[1].language = "fr"

\* C6: a call of WhisperSTT._recognize_impl or OpenAIWhisperSTT._recognize_impl in which
\* the audio does not decode, the model is not initialised or the transcription call
\* raises ends with APIConnectionError and no other exception type, and returns no
\* SpeechEvent; a call with none of these failures returns an event.
C6_FailuresWrapped ==
    stt_out.kind # "none" =>
        LET failed == \/ ~stt_in.run.audio_ok
                      \/ ~stt_in.run.transcribe_ok
                      \/ (stt_class = "WhisperSTT" /\ whisper_model = None)
        IN /\ failed => /\ stt_out.kind = "raised"
                         /\ stt_out.exc = "APIConnectionError"
                         /\ stt_out.alternatives = <<>>
                         /\ stt_out.type = "none"
           /\ stt_out.kind = "raised" => (failed /\ stt_out.exc = "APIConnectionError")
           /\ ~failed => stt_out.kind = "event"

C6_Witness ==
    /\ stt_out.kind = "raised"
    /\ stt_out.cause = "RuntimeError"
    /\ stt_out.exc = "APIConnectionError"

\* C21: a call of update_options makes one loader call when its model or its
\* model_cache_directory is given (not None and not empty) and none otherwise, and
\* nothing else reloads the model; the loader is then given the updated model and cache
\* directory. A call that gives
\* neither leaves the model, the stored model name and cache directory as they were and
\* sets the stored language to the given language, or leaves it when none is given.
\* A _recognize_impl call, whatever its language argument, leaves the stored options
\* as they were.
C21_ReloadOnModelOptions ==
    [][ /\ (stt_update' # stt_update) =>
             LET model == stt_update'.model
                 language == stt_update'.language
                 model_cache_directory == stt_update'.model_cache_directory
             IN /\ stt_update'.kind = "call"
                /\ (IsGiven(model) \/ IsGiven(model_cache_directory)) =>
                       /\ Len(model_loads') = Len(model_loads) + 1
                       /\ model_loads'[Len(model_loads')].model = opts'.model
                       /\ model_loads'[Len(model_loads')].download_root =
                              opts'.model_cache_directory
                       /\ IsGiven(model) => opts'.model = model
                /\ (~IsGiven(model) /\ ~IsGiven(model_cache_directory)) =>
                       /\ model_loads' = model_loads
                       /\ whisper_model' = whisper_model
                       /\ ~stt_update'.raised
                       /\ opts' = [opts EXCEPT !.language =
                                      IF IsGiven(language) THEN language ELSE @]
        /\ (stt_update' = stt_update) =>
             (model_loads' = model_loads /\ whisper_model' = whisper_model)
        /\ (stt_class = "WhisperSTT" /\ stt_out' # stt_out) =>
             (opts' = opts /\ stt_in'.language \in CallLanguages)
      ]_vars

\* a call that gave only a language: the language is stored, nothing was loaded; the
\* recognition that followed had a language of its own
C21_Witness ==
    /\ stt_update.kind = "call"
    /\ stt_update.language = "fr" /\ opts.language = "fr"
    /\ stt_update.model = None /\ stt_update.model_cache_directory = None
    /\ model_loads = <<>>
    /\ stt_out.kind = "event" /\ stt_in.language = ""

(***************************************************************************)
(* WhisperSTT: the device and the compute type of the model load           *)
(***************************************************************************)
Systems == {"Darwin", "Linux"}
Machines == {"arm64", "aarch64", "x86_64"}

\* platform.system() and platform.machine() return, or one of them raises
Platforms == [ok : {TRUE}, system : Systems, machine : Machines]
             \cup [ok : {FALSE}, system : {None}, machine : {None}]

\* stt_config['device'] and stt_config['compute_type']: absent, empty, or a name
DeviceConfigs == {None, "", "cpu", "cuda", "metal"}
ComputeConfigs == {None, "", "float16"}

NoSelection == [device |-> None, compute_type |-> None]
NoLoad == [engine |-> "none", device |-> None, compute_type |-> None]

LoadInit ==
    /\ platform \in Platforms
    /\ whisper_config \in [backend : {"faster-whisper", "openai"}, device : DeviceConfigs,
                           compute_type : ComputeConfigs]
    /\ selection = NoSelection
    /\ load_args = NoLoad

LoadIdle ==
    /\ platform = [ok |-> FALSE, system |-> None, machine |-> None]
    /\ whisper_config = [backend |-> "idle", device |-> None, compute_type |-> None]
    /\ selection = NoSelection
    /\ load_args = NoLoad

\* mutant of default_device: every Darwin host is taken for Apple Silicon
default_device_any_mac(device_cfg) ==
    IF device_cfg # None /\ device_cfg # "" THEN device_cfg
    ELSE IF ~platform.ok THEN "cpu"
    ELSE IF platform.system = "Darwin" THEN "metal"
    ELSE "cpu"

\* WhisperSTT._default_device
default_device(device_cfg) ==
    IF device_cfg # None /\ device_cfg # "" THEN device_cfg
    ELSE IF ~platform.ok THEN "cpu"
    ELSE IF platform.system = "Darwin" /\ platform.machine \in {"arm64", "aarch64"} THEN "metal"
    ELSE "cpu"

\* WhisperSTT._default_compute
default_compute(compute_cfg, device) ==
    IF compute_cfg # None /\ compute_cfg # "" THEN compute_cfg
    ELSE IF device = "metal" THEN "int8_float16"
    ELSE "int8"

\* WhisperSTT._initialize_faster_whisper: WhisperModel(device=..., compute_type=...)
InitializeFasterWhisper ==
    /\ whisper_config.backend = "faster-whisper"
    /\ load_args = NoLoad
    /\ LET device == default_device(whisper_config.device)
           compute_type == default_compute(whisper_config.compute_type, device)
       IN /\ selection' = [device |-> device, compute_type |-> compute_type]
          /\ load_args' = [engine |-> "WhisperModel", device |-> device,
                           compute_type |-> compute_type]
    /\ UNCHANGED <<platform, whisper_config, notLoad>>

\* WhisperSTT._initialize_openai_whisper: whisper.load_model(device=...); the engine has
\* no Metal device, so a selected "metal" is handed over as "cuda"; no compute type
InitializeOpenAIWhisper ==
    /\ whisper_config.backend = "openai"
    /\ load_args = NoLoad
    /\ LET device == default_device(whisper_config.device)
       IN /\ selection' = [device |-> device, compute_type |-> None]
          /\ load_args' = [engine |-> "load_model",
                           device |-> IF device = "metal" THEN "cuda" ELSE device,
                           compute_type |-> None]
    /\ UNCHANGED <<platform, whisper_config, notLoad>>

LoadNext == InitializeFasterWhisper \/ InitializeOpenAIWhisper

(***************************************************************************)
(* Claims about the device and compute selection                           *)
(***************************************************************************)
\* a configuration value that is configured: present and not empty
Configured(v) == v \notin {None, ""}

\* the host is known to be Darwin on arm64 or aarch64
AppleSilicon ==
    /\ platform.ok
    /\ platform.system = "Darwin"
    /\ platform.machine = "arm64" \/ platform.machine = "aarch64"

MaxChunks == 2

Chunks == {"pcm1", "pcm2"}

\* exception classes the speech request can raise, each with its base classes
\* (openai.APITimeoutError derives from openai.APIConnectionError)
Bases(class) ==
    CASE class = "openai.APITimeoutError" ->
           {"openai.APITimeoutError", "openai.APIConnectionError", "openai.APIError", "Exception"}
      [] class = "openai.APIConnectionError" ->
           {"openai.APIConnectionError", "openai.APIError", "Exception"}
      [] class = "openai.APIStatusError" ->
           {"openai.APIStatusError", "openai.APIError", "Exception"}
      [] OTHER -> {"Exception"}

\* except <class>: matches an instance of the class or of a subclass
IsInstance(e, class) == class \in Bases(e.class)

ClientErrors ==
    [class : {"openai.APITimeoutError", "openai.APIConnectionError", "ValueError"},
     message : {"m"}, status_code : {None}, request_id : {None}, body : {None}]
    \cup [class : {"openai.APIStatusError"}, message : {"m"}, status_code : {"429", "500"},
          request_id : {None, "req_1"}, body : {None, "overloaded"}]

NoError == [class |-> "none", message |-> None, status_code |-> None, request_id |-> None,
            body |-> None]

\* the framework error a handler raises
FrameworkError(type, e) ==
    IF type = "APIStatusError"
    THEN [type |-> type, message |-> e.message, status_code |-> e.status_code,
          request_id |-> e.request_id, body |-> e.body, from |-> e]
    ELSE [type |-> type, message |-> None, status_code |-> None, request_id |-> None,
          body |-> None, from |-> e]

\* mutant of MapError: the handler for connection errors comes before the timeout handler
MapError_ConnectionFirst(e) ==
    IF IsInstance(e, "openai.APIConnectionError") THEN FrameworkError("APIConnectionError", e)
    ELSE IF IsInstance(e, "openai.APITimeoutError") THEN FrameworkError("APITimeoutError", e)
    ELSE IF IsInstance(e, "openai.APIStatusError") THEN FrameworkError("APIStatusError", e)
    ELSE FrameworkError("APIConnectionError", e)

\* the except clauses of KokoroTTSStream._run, tried in order
MapError(e) ==
    IF IsInstance(e, "openai.APITimeoutError") THEN FrameworkError("APITimeoutError", e)
    ELSE IF IsInstance(e, "openai.APIStatusError") THEN FrameworkError("APIStatusError", e)
    ELSE FrameworkError("APIConnectionError", e)

TTSOptions == [model : {"kokoro"}, voice : {"af_heart", "bf_emma"}, speed : {"1.0", "1.2"}]

TTSInit ==
    /\ tts_opts \in TTSOptions
    /\ stream_pc = "none"
    /\ stream_opts = [model |-> None, voice |-> None, speed |-> None]
    /\ requests = 0
    /\ pending = <<>>
    /\ emitter = <<>>
    /\ tts_errors = <<>>
    /\ opts_aliased = FALSE

TTSIdle ==
    /\ tts_opts = [model |-> None, voice |-> None, speed |-> None]
    /\ stream_pc = "idle"
    /\ stream_opts = [model |-> None, voice |-> None, speed |-> None]
    /\ requests = 0
    /\ pending = <<>>
    /\ emitter = <<>>
    /\ tts_errors = <<>>
    /\ opts_aliased = FALSE

\* KokoroTTS.synthesize: KokoroTTSStream.__init__ copies the options
Synthesize ==
    /\ stream_pc = "none"
    /\ stream_opts' = replace(tts_opts).opts
    /\ opts_aliased' = replace(tts_opts).same_object
    /\ stream_pc' = "created"
    /\ UNCHANGED <<tts_opts, requests, pending, emitter, tts_errors, notTTS>>

\* the arguments of update_options: each is NOT_GIVEN or a value
UpdateModels == {NOT_GIVEN, "tts-1"}
UpdateVoices == {NOT_GIVEN, "af_heart", "bf_emma"}
UpdateSpeeds == {NOT_GIVEN, "1.2"}

\* if is_given(x): self._opts.<field> = x
GivenOr(x, old) == IF x # NOT_GIVEN THEN x ELSE old

\* KokoroTTS.update_options(model=..., voice=..., speed=...): the assignments go to the
\* object self._opts, and show in the stream iff the stream holds the same object
UpdateOptionsWith(model, voice, speed) ==
    /\ stream_pc # "idle"
    /\ tts_opts' = [model |-> GivenOr(model, tts_opts.model),
                    voice |-> GivenOr(voice, tts_opts.voice),
                    speed |-> GivenOr(speed, tts_opts.speed)]
    /\ stream_opts' = IF opts_aliased THEN tts_opts' ELSE stream_opts
    /\ UNCHANGED <<stream_pc, requests, pending, emitter, tts_errors, opts_aliased, notTTS>>

UpdateOptions ==
    \E model \in UpdateModels, voice \in UpdateVoices, speed \in UpdateSpeeds :
        UpdateOptionsWith(model, voice, speed)

\* a per-stream mutation of the options (KokoroTTSStream.__init__ names them; the
\* repository makes none itself): one field of the stream's object is assigned
MutateStreamOptions ==
    /\ stream_pc \notin {"idle", "none"}
    /\ \E o \in [model : {stream_opts.model}, voice : {stream_opts.voice, "am_adam"},
                  speed : {stream_opts.speed, "0.8"}] :
         /\ o # stream_opts
         /\ o.voice = stream_opts.voice \/ o.speed = stream_opts.speed
         /\ stream_opts' = o
    /\ tts_opts' = IF opts_aliased THEN stream_opts' ELSE tts_opts
    /\ UNCHANGED <<stream_pc, requests, pending, emitter, tts_errors, opts_aliased, notTTS>>

\* _run leaves with the framework error for client exception e
RunRaise(e) ==
    /\ tts_errors' = Append(tts_errors, MapError(e))
    /\ stream_pc' = "failed"

\* mutant of RunRequest: after a failed request the stream issues the request again
RunRequest_Retry ==
    /\ stream_pc = "created"
    /\ requests' = requests + 1
    /\ \/ /\ pending' \in SeqsUpTo(Chunks, MaxChunks)
          /\ stream_pc' = "open"
       \/ UNCHANGED <<pending, stream_pc>>
    /\ UNCHANGED <<tts_opts, stream_opts, emitter, tts_errors, opts_aliased, notTTS>>

\* _run: the speech request is issued; the response opens, or the client raises
RunRequest ==
    /\ stream_pc = "created"
    /\ requests' = requests + 1
    /\ \/ /\ pending' \in SeqsUpTo(Chunks, MaxChunks)
          /\ stream_pc' = "open"
          /\ UNCHANGED tts_errors
       \/ /\ \E e \in ClientErrors : RunRaise(e)
          /\ UNCHANGED pending
    /\ UNCHANGED <<tts_opts, stream_opts, emitter, opts_aliased, notTTS>>

\* _run: output_emitter.initialize(...)
RunInitialize ==
    /\ stream_pc = "open"
    /\ emitter' = Append(emitter, "initialize")
    /\ stream_pc' = "streaming"
    /\ UNCHANGED <<tts_opts, stream_opts, requests, pending, tts_errors, opts_aliased, notTTS>>

\* mutant of RunPush: the chunk received last is pushed first
RunPush_LastFirst ==
    /\ stream_pc = "streaming"
    /\ pending # <<>>
    /\ emitter' = Append(emitter, pending[Len(pending)])
    /\ pending' = SubSeq(pending, 1, Len(pending) - 1)
    /\ UNCHANGED <<tts_opts, stream_pc, stream_opts, requests, tts_errors, opts_aliased, notTTS>>

\* _run: async for data in stream.iter_bytes(): output_emitter.push(data)
RunPush ==
    /\ stream_pc = "streaming"
    /\ pending # <<>>
    /\ emitter' = Append(emitter, Head(pending))
    /\ pending' = Tail(pending)
    /\ UNCHANGED <<tts_opts, stream_pc, stream_opts, requests, tts_errors, opts_aliased, notTTS>>

\* _run: the response breaks while it is read
RunStreamFail ==
    /\ stream_pc = "streaming"
    /\ \E e \in ClientErrors : RunRaise(e)
    /\ UNCHANGED <<tts_opts, stream_opts, requests, pending, emitter, opts_aliased, notTTS>>

\* _run: the response is exhausted and _run returns
RunDone ==
    /\ stream_pc = "streaming"
    /\ pending = <<>>
    /\ stream_pc' = "done"
    /\ UNCHANGED <<tts_opts, stream_opts, requests, pending, emitter, tts_errors, opts_aliased, notTTS>>

TTSNext ==
    \/ Synthesize
    \/ UpdateOptions
    \/ MutateStreamOptions
    \/ RunRequest
    \/ RunInitialize
    \/ RunPush
    \/ RunStreamFail
    \/ RunDone

(***************************************************************************)
(* Claims about KokoroTTSStream._run                                       *)
(***************************************************************************)
\* C7: every failure of the speech request makes _run raise exactly one framework error:
\* for a client timeout APITimeoutError, for a client status error APIStatusError with the
\* same status code, request id and body, for every other exception APIConnectionError;
\* a timeout is never reported as APIConnectionError, and a run that does not fail raises
\* nothing.
C7_ErrorMapping ==
    /\ Len(tts_errors) <= 1
    /\ stream_pc = "failed" <=> Len(tts_errors) = 1
    /\ \A i \in DOMAIN tts_errors :
          LET raised == tts_errors[i]
              cause  == raised.from
          IN /\ cause.class = "openai.APITimeoutError" <=> raised.type = "APITimeoutError"
             /\ cause.class = "openai.APIStatusError" <=> raised.type = "APIStatusError"
             /\ cause.class = "openai.APIStatusError" =>
                   /\ raised.status_code = cause.status_code
                   /\ raised.request_id = cause.request_id
                   /\ raised.body = cause.body
             /\ cause.class \notin {"openai.APITimeoutError", "openai.APIStatusError"}
                   <=> raised.type = "APIConnectionError"

C7_Witness ==
    /\ stream_pc = "failed"
    /\ Len(tts_errors) = 1
    /\ tts_errors[1].type = "APIStatusError"
    /\ tts_errors[1].status_code = "429"
    /\ tts_errors[1].body = "overloaded"
    /\ emitter # <<>>

\* C14: the stream is created with the field values of the options of the TTS instance,
\* in an object of its own. A call of KokoroTTS.update_options
\* leaves the model, voice and speed of the stream as they were and changes, in the TTS
\* instance, exactly the fields that are given, each to the given value; a change of the
\* stream's options leaves the options of the TTS instance as they were.
C14_OptionsCopied ==
    [][ /\ \A model \in UpdateModels, voice \in UpdateVoices, speed \in UpdateSpeeds :
             UpdateOptionsWith(model, voice, speed) =>
                 /\ stream_opts' = stream_opts
                 /\ tts_opts'.model = (IF model = NOT_GIVEN THEN tts_opts.model ELSE model)
                 /\ tts_opts'.voice = (IF voice = NOT_GIVEN THEN tts_opts.voice ELSE voice)
                 /\ tts_opts'.speed = (IF speed = NOT_GIVEN THEN tts_opts.speed ELSE speed)
        /\ MutateStreamOptions => tts_opts' = tts_opts
        /\ Synthesize => stream_opts' = tts_opts /\ tts_opts' = tts_opts
      ]_vars

\* update_options(model="tts-1") came after synthesize: the TTS instance has the new
\* model, the stream the one it was created with, and both the same voice
C14_Witness ==
    /\ stream_pc = "created"
    /\ tts_opts.model = "tts-1"
    /\ stream_opts.model = "kokoro"
    /\ tts_opts.voice = stream_opts.voice
    /\ tts_opts.speed = stream_opts.speed

\* the chunks pushed to the emitter so far, in the order of the pushes
Pushed == SelectSeq(emitter, LAMBDA x : x # "initialize")

\* C22: the emitter is initialised at most once, and exactly once in a run whose
\* response opened and reached the read loop; the initialisation is the first call on
\* the emitter and is made from the opened response, so it precedes every push. Each
\* push hands over the chunk received first among those not yet pushed, so the pushed
\* chunks followed by the remaining ones are always the response as received. A request
\* that fails before the response opens leaves the emitter untouched, and nothing is
\* initialised or pushed after a failure.
C22_EmitterProtocol ==
    /\ [](/\ Count(emitter, "initialize") <= 1
          /\ emitter # <<>> => emitter[1] = "initialize"
          /\ stream_pc \in {"streaming", "done"} => Count(emitter, "initialize") = 1
          /\ stream_pc \in {"none", "created", "open"} => emitter = <<>>
          /\ stream_pc = "done" => pending = <<>>)
    /\ [][ /\ (Count(emitter', "initialize") # Count(emitter, "initialize")) =>
                 (stream_pc = "open" /\ requests = 1 /\ Pushed' = <<>>)
           /\ (stream_pc \in {"open", "streaming"}) =>
                 (Pushed' \o pending' = Pushed \o pending)
           /\ (Pushed' # Pushed) =>
                 (stream_pc = "streaming" /\ Pushed' = Append(Pushed, Head(pending)))
           /\ (stream_pc = "created" /\ stream_pc' = "failed") => emitter' = <<>>
           /\ (stream_pc = "failed") => emitter' = emitter
         ]_vars

\* a run that received two different chunks and pushed both before it returned
C22_Witness ==
    /\ stream_pc = "done"
    /\ emitter = <<"initialize", "pcm1", "pcm2">>
    /\ tts_errors = <<>>

(***************************************************************************)
(* AgentMemoryManager                                                      *)
(***************************************************************************)
\* longest chat context given to save_memory
MaxItems == 3
\* longest stored history load_history returns
MaxHistory == 6
\* largest configured memory.load_last_n
MaxLoadN == 2
\* most memories get_memories returns
MaxMemories == 2

\* self.memory_config.get("load_last_n", 5)
DefaultLoadLastN == 5

Roles == {"user", "assistant", "system"}

\* message.content: no content, or a list whose first element is the text
Contents == { <<>>, << <<" ">> >>, << <<"x">> >>, << <<"y">>, <<"z">> >> }

\* save_memory reads the content of user and assistant items only
ChatItems == [role : {"user", "assistant"}, content : Contents]
             \cup [role : Roles \ {"user", "assistant"}, content : { << <<"x">> >> }]

\* interaction k of a stored history: its prompt and its output, either possibly empty
Interaction(k, has) ==
    [prompt |-> IF has.prompt THEN <<"q", k>> ELSE <<>>,
     output |-> IF has.output THEN <<"r", k>> ELSE <<>>]

Histories ==
    {[k \in DOMAIN has |-> Interaction(k, has[k])] :
        has \in SeqsUpTo([prompt : BOOLEAN, output : BOOLEAN], MaxHistory)}

\* a memory get_memories returns: background knowledge or not, with its output
Memories == SeqsUpTo([background : BOOLEAN, output : {<<>>, <<"k">>}], MaxMemories)

MemInit ==
    /\ memory_config \in [use : BOOLEAN, has_load_last_n : {TRUE}, load_last_n : 0..MaxLoadN]
                         \cup [use : BOOLEAN, has_load_last_n : {FALSE}, load_last_n : {0}]
    /\ memory_manager = None
    /\ dir_created = FALSE
    /\ mop = "none"
    /\ mpc = "new"
    /\ items = <<>>
    /\ index = 0
    /\ iterations = 0
    /\ processed_count = 0
    /\ attempts = <<>>
    /\ lib_calls = <<>>
    /\ history = <<>>
    /\ update_calls = <<>>
    /\ knowledge = <<>>

MemIdle ==
    /\ memory_config = [use |-> FALSE, has_load_last_n |-> FALSE, load_last_n |-> 0]
    /\ memory_manager = None
    /\ dir_created = FALSE
    /\ mop = "none"
    /\ mpc = "off"
    /\ items = <<>>
    /\ index = 0
    /\ iterations = 0
    /\ processed_count = 0
    /\ attempts = <<>>
    /\ lib_calls = <<>>
    /\ history = <<>>
    /\ update_calls = <<>>
    /\ knowledge = <<>>

\* mutant of initialize_memory_manager: memory.use is not consulted
initialize_memory_manager_always(components_ok) ==
    [dir_created |-> TRUE, memory_manager |-> IF components_ok THEN "ready" ELSE None]

\* AgentMemoryManager._initialize_memory_manager: what it leaves behind, given whether
\* the model and storage components can be built
initialize_memory_manager(components_ok) ==
    IF ~memory_config.use
    THEN [dir_created |-> FALSE, memory_manager |-> None]
    ELSE [dir_created |-> TRUE, memory_manager |-> IF components_ok THEN "ready" ELSE None]

\* AgentMemoryManager.__init__
Construct ==
    /\ mpc = "new"
    /\ \E components_ok \in BOOLEAN :
         LET r == initialize_memory_manager(components_ok) IN
           /\ dir_created' = r.dir_created
           /\ memory_manager' = r.memory_manager
    /\ mpc' = "idle"
    /\ UNCHANGED <<memory_config, mop, items, index, iterations, processed_count, attempts,
                   lib_calls, history, update_calls, knowledge, notMem>>

\* the guards every method starts with: memory in use and a manager present
Enabled == memory_config.use /\ memory_manager # None

\* a method may be called once the manager is constructed; the methods read
\* memory_config and memory_manager and write neither, so a behaviour holds one call
CanCall == mpc = "idle" /\ mop = "none"

\* history[-n:]
LastN(h, n) ==
    IF n = 0 THEN h
    ELSE SubSeq(h, (IF Len(h) > n THEN Len(h) - n + 1 ELSE 1), Len(h))

\* the messages load_memory builds from the interactions, in order
RECURSIVE MessagesOf(_)
MessagesOf(interactions) ==
    IF interactions = <<>> THEN <<>>
    ELSE LET x == Head(interactions) IN
         (IF x.prompt # <<>> THEN << [role |-> "user", content |-> <<x.prompt>>] >> ELSE <<>>)
         \o (IF x.output # <<>> THEN << [role |-> "assistant", content |-> <<x.output>>] >>
             ELSE <<>>)
         \o MessagesOf(Tail(interactions))

\* self.memory_config.get("load_last_n", 5)
NumInteractionsToLoad ==
    IF memory_config.has_load_last_n THEN memory_config.load_last_n ELSE DefaultLoadLastN

\* AgentMemoryManager.load_memory
LoadMemory ==
    /\ CanCall
    /\ mop' = "load_memory"
    /\ IF ~Enabled
       THEN UNCHANGED <<lib_calls, history, update_calls>>
       ELSE \E outcome \in {"ok", "FileNotFoundError", "Exception"} :
              /\ lib_calls' = <<[fn |-> "load_history", outcome |-> outcome]>>
              /\ IF outcome # "ok"
                 THEN UNCHANGED <<history, update_calls>>
                 ELSE \E h \in Histories :
                        LET messages == MessagesOf(LastN(h, NumInteractionsToLoad)) IN
                          /\ history' = h
                          /\ update_calls' = IF messages # <<>> THEN <<messages>> ELSE <<>>
    /\ UNCHANGED <<memory_config, memory_manager, dir_created, mpc, items, index, iterations,
                   processed_count, attempts, knowledge, notMem>>

\* AgentMemoryManager._extract_message_content
extract_message_content(message) ==
    IF message.content = <<>> THEN <<>> ELSE message.content[1]

\* mutant of NextPair: the message after a user message is never looked at
NextPair_NoLookahead(its, k) ==
    IF its[k + 1].role = "user"
    THEN [user |-> k + 1, assistant |-> 0, next |-> k + 1]
    ELSE [user |-> 0, assistant |-> 0, next |-> k + 1]

\* mutant of NextPair: the item after a user message is taken for the reply, whatever
\* its role
NextPair_AnyReply(its, k) ==
    IF its[k + 1].role = "user"
    THEN IF k + 1 < Len(its)
         THEN [user |-> k + 1, assistant |-> k + 2, next |-> k + 2]
         ELSE [user |-> k + 1, assistant |-> 0, next |-> k + 1]
    ELSE [user |-> 0, assistant |-> 0, next |-> k + 1]

\* mutant of NextPair: an item that is neither a user's nor an assistant's is not passed
NextPair_SystemStuck(its, k) ==
    IF its[k + 1].role = "user"
    THEN IF k + 1 < Len(its) /\ its[k + 2].role = "assistant"
         THEN [user |-> k + 1, assistant |-> k + 2, next |-> k + 2]
         ELSE [user |-> k + 1, assistant |-> 0, next |-> k + 1]
    ELSE IF its[k + 1].role = "assistant"
    THEN [user |-> 0, assistant |-> 0, next |-> k + 1]
    ELSE [user |-> 0, assistant |-> 0, next |-> k]

\* one iteration of the save_memory loop at index k (0-based, as in the code): the
\* positions (1-based, 0 for None) of user_msg and assistant_msg, and the next index
NextPair(its, k) ==
    IF its[k + 1].role = "user"
    THEN IF k + 1 < Len(its) /\ its[k + 2].role = "assistant"
         THEN [user |-> k + 1, assistant |-> k + 2, next |-> k + 2]
         ELSE [user |-> k + 1, assistant |-> 0, next |-> k + 1]
    ELSE [user |-> 0, assistant |-> 0, next |-> k + 1]

\* the library calls of one try block, up to and including the one that raises
TryCalls(combined_text, prompt, output, raises) ==
    LET c1 == [fn |-> "extract_concepts", text |-> combined_text, prompt |-> <<>>,
               output |-> <<>>]
        c2 == [fn |-> "get_embedding", text |-> combined_text, prompt |-> <<>>,
               output |-> <<>>]
        c3 == [fn |-> "add_interaction", text |-> <<>>, prompt |-> prompt, output |-> output]
    IN CASE raises = "extract_concepts" -> <<c1>>
         [] raises = "get_embedding" -> <<c1, c2>>
         [] OTHER -> <<c1, c2, c3>>

TryOutcomes == {"none", "extract_concepts", "get_embedding", "add_interaction"}

\* mutant of ExceptHandler: the exception leaves save_memory
ExceptHandler_Reraise(raises) == IF raises = "none" THEN "loop" ELSE "raised"

\* except Exception as e: logger.error(...): where save_memory is after the try block
ExceptHandler(raises) == "loop"

\* AgentMemoryManager.save_memory up to the loop
SaveBegin ==
    /\ CanCall
    /\ mop' = "save_memory"
    /\ \E chat_items \in SeqsUpTo(ChatItems, MaxItems) :
         /\ items' = chat_items
         /\ mpc' = IF Enabled /\ chat_items # <<>> THEN "loop" ELSE "idle"
    /\ UNCHANGED <<memory_config, memory_manager, dir_created, index, iterations,
                   processed_count, attempts, lib_calls, history, update_calls, knowledge,
                   notMem>>

\* one iteration of the loop of save_memory
SaveIteration ==
    /\ mpc = "loop"
    /\ index < Len(items)
    /\ iterations' = iterations + 1
    /\ LET pair == NextPair(items, index)
           user_prompt == extract_message_content(items[pair.user])
           assistant_response ==
               IF pair.assistant # 0 THEN extract_message_content(items[pair.assistant])
               ELSE <<>>
           combined_text == Strip(user_prompt \o <<" ">> \o assistant_response)
       IN /\ index' = pair.next
          /\ IF pair.user = 0 \/ combined_text = <<>>
             THEN UNCHANGED <<attempts, lib_calls, processed_count, mpc>>
             ELSE \E raises \in TryOutcomes :
                    /\ attempts' = Append(attempts, [user_msg |-> pair.user,
                                                     assistant_msg |-> pair.assistant,
                                                     prompt |-> user_prompt,
                                                     output |-> assistant_response,
                                                     raised |-> raises])
                    /\ mpc' = ExceptHandler(raises)
                    /\ lib_calls' = lib_calls
                                     \o TryCalls(combined_text, user_prompt,
                                                 assistant_response, raises)
                    /\ processed_count' = IF raises = "none" THEN processed_count + 1
                                          ELSE processed_count
    /\ UNCHANGED <<memory_config, memory_manager, dir_created, mop, items, history,
                   update_calls, knowledge, notMem>>

\* the loop of save_memory ends and the count is logged
SaveEnd ==
    /\ mpc = "loop"
    /\ ~(index < Len(items))
    /\ mpc' = "idle"
    /\ UNCHANGED <<memory_config, memory_manager, dir_created, mop, items, index, iterations,
                   processed_count, attempts, lib_calls, history, update_calls, knowledge,
                   notMem>>

\* AgentMemoryManager.add_background_knowledge
AddBackgroundKnowledge ==
    /\ CanCall
    /\ mop' = "add_background_knowledge"
    /\ IF ~Enabled
       THEN UNCHANGED lib_calls
       ELSE \E raises \in TryOutcomes :
              lib_calls' = TryCalls(<<"[BACKGROUND KNOWLEDGE", " ", "summary">>,
                                    <<"[BACKGROUND KNOWLEDGE">>, <<"summary">>, raises)
    /\ UNCHANGED <<memory_config, memory_manager, dir_created, mpc, items, index, iterations,
                   processed_count, attempts, history, update_calls, knowledge, notMem>>

\* the outputs of the background knowledge entries that have one, in order
RECURSIVE Snippets(_)
Snippets(memories) ==
    IF memories = <<>> THEN <<>>
    ELSE (IF Head(memories).background /\ Head(memories).output # <<>>
          THEN <<Head(memories).output>> ELSE <<>>)
         \o Snippets(Tail(memories))

\* AgentMemoryManager.get_relevant_knowledge
GetRelevantKnowledge ==
    /\ CanCall
    /\ mop' = "get_relevant_knowledge"
    /\ IF ~Enabled
       THEN knowledge' = <<>> /\ UNCHANGED lib_calls
       ELSE \E ok \in BOOLEAN :
              /\ lib_calls' = <<[fn |-> "get_memories", outcome |-> IF ok THEN "ok" ELSE "Exception"]>>
              /\ IF ok THEN \E memories \in Memories : knowledge' = Snippets(memories)
                       ELSE knowledge' = <<>>
    /\ UNCHANGED <<memory_config, memory_manager, dir_created, mpc, items, index, iterations,
                   processed_count, attempts, history, update_calls, notMem>>

MemNext ==
    \/ Construct
    \/ LoadMemory
    \/ SaveBegin
    \/ SaveIteration
    \/ SaveEnd
    \/ AddBackgroundKnowledge
    \/ GetRelevantKnowledge

(***************************************************************************)
(* Claims about AgentMemoryManager                                         *)
(***************************************************************************)
\* the text of a chat item: the first element of its content, "" without content
ItemText(item) == IF Len(item.content) = 0 THEN <<>> ELSE Head(item.content)

\* the text of the item after position k when that item is an assistant's, else ""
ReplyText(its, k) ==
    IF k < Len(its) /\ its[k + 1].role = "assistant" THEN ItemText(its[k + 1]) ELSE <<>>

\* t holds nothing but blanks
IsBlank(t) == \A k \in DOMAIN t : t[k] = " "

\* the positions of the user items to forward: those with some text in prompt or reply
ForwardedPositions(its) ==
    {k \in DOMAIN its : /\ its[k].role = "user"
                        /\ ~(IsBlank(ItemText(its[k])) /\ IsBlank(ReplyText(its, k)))}

\* the elements of a set of numbers in increasing order
RECURSIVE Ascending(_)
Ascending(S) ==
    IF S = {} THEN <<>>
    ELSE LET m == CHOOSE x \in S : \A y \in S : x <= y IN <<m>> \o Ascending(S \ {m})

\* the prompt/output pairs the claim expects, in the order of the items
ExpectedPairs(its) ==
    LET pos == Ascending(ForwardedPositions(its)) IN
    [n \in DOMAIN pos |-> [prompt |-> ItemText(its[pos[n]]), output |-> ReplyText(its, pos[n])]]

SaveFinished == mop = "save_memory" /\ mpc = "idle" /\ memory_config.use /\ memory_manager # None

AddCalls == SelectSeq(lib_calls, LAMBDA c : c.fn = "add_interaction")

ReachedAdd == SelectSeq(attempts, LAMBDA a : a.raised \in {"none", "add_interaction"})

\* C1: save_memory, with memory enabled and a manager present, has made by the time it
\* returns one attempt per user item whose combined prompt and output text is not empty
\* after stripping, and none for any other item, in the order of the items; the prompt of
\* the attempt is the text of the user item and its output is the text of the item right
\* after it when that item is an assistant's and "" otherwise. An attempt is one pass of
\* the try block; add_interaction is called, with that prompt and output, in exactly the
\* attempts in which extract_concepts and get_embedding did not raise.
C1_SavePairs ==
    SaveFinished =>
        /\ [n \in DOMAIN attempts |-> [prompt |-> attempts[n].prompt,
                                       output |-> attempts[n].output]]
             = ExpectedPairs(items)
        /\ [n \in DOMAIN AddCalls |-> [prompt |-> AddCalls[n].prompt,
                                       output |-> AddCalls[n].output]]
             = [n \in DOMAIN ReachedAdd |-> [prompt |-> ReachedAdd[n].prompt,
                                            output |-> ReachedAdd[n].output]]

C1_Witness ==
    /\ SaveFinished
    /\ Len(items) = 3
    /\ items[1].role = "user" /\ items[2].role = "user" /\ items[3].role = "assistant"
    /\ Len(attempts) = 2
    /\ attempts[1].prompt = <<"x">> /\ attempts[1].output = <<>>
    /\ attempts[2].prompt = <<"y">> /\ attempts[2].output = <<"x">>
    /\ Len(AddCalls) = 2

\* C8: when memory.use is false, construction leaves memory_manager None and creates no
\* directory, and load_memory, save_memory, add_background_knowledge and
\* get_relevant_knowledge make no library call and no call of the update function, and
\* get_relevant_knowledge returns the empty list.
C8_DisabledTouchesNothing ==
    ~memory_config.use =>
        /\ memory_manager = None
        /\ ~dir_created
        /\ lib_calls = <<>>
        /\ attempts = <<>>
        /\ update_calls = <<>>
        /\ knowledge = <<>>
        /\ mpc # "loop"

C8_Witness ==
    /\ ~memory_config.use
    /\ mop = "save_memory"
    /\ \E k \in DOMAIN items : items[k].role = "user" /\ ItemText(items[k]) = <<"x">>

\* the last n elements of h, all of h when it has fewer
Latest(h, n) == [k \in 1..(IF Len(h) < n THEN Len(h) ELSE n) |->
                    h[k + (IF Len(h) < n THEN 0 ELSE Len(h) - n)]]

\* the messages of the interactions: for each, its user message if it has a prompt, then
\* its assistant message if it has an output
RECURSIVE Flattened(_)
Flattened(h) ==
    IF Len(h) = 0 THEN <<>>
    ELSE Flattened(SubSeq(h, 1, Len(h) - 1))
         \o (IF h[Len(h)].prompt = <<>> THEN <<>>
             ELSE << [role |-> "user", content |-> <<h[Len(h)].prompt>>] >>)
         \o (IF h[Len(h)].output = <<>> THEN <<>>
             ELSE << [role |-> "assistant", content |-> <<h[Len(h)].output>>] >>)

LoadLimit == IF memory_config.has_load_last_n THEN memory_config.load_last_n ELSE 5

Loaded ==
    /\ mop = "load_memory"
    /\ lib_calls # <<>>
    /\ lib_calls[1].outcome = "ok"

\* C9: load_memory hands the update function the messages of at most load_last_n stored
\* interactions (5 when load_last_n is not configured), namely the most recent ones, in
\* stored order, each interaction contributing its user message before its assistant
\* message.
C9_LoadsLastN ==
    Loaded =>
        LET expected == Flattened(Latest(history, LoadLimit)) IN
        \A k \in DOMAIN update_calls : update_calls[k] = expected

\* the same for a load_last_n that is not 0 (checked to delimit the failure of C9)
C9_LoadsLastNPositive ==
    (Loaded /\ LoadLimit # 0) =>
        LET expected == Flattened(Latest(history, LoadLimit)) IN
        /\ Len(update_calls) <= 1
        /\ expected # <<>> <=> Len(update_calls) = 1
        /\ \A k \in DOMAIN update_calls : update_calls[k] = expected

\* C15: the loop of save_memory ends. Every iteration, also one that skips its item and
\* one whose try block raises, moves the index forward by 1 or by 2 and never past the
\* length of the list, so that len(items) - i is never negative and decreases with every
\* iteration; the loop makes at most len(items) iterations.
C15_LoopTerminates ==
    /\ [](/\ index <= Len(items)
          /\ iterations <= Len(items)
          /\ iterations <= index)
    /\ [][iterations' # iterations =>
            /\ iterations' = iterations + 1
            /\ index' - index \in {1, 2}
            /\ index' <= Len(items)]_vars

\* a skipped system item, then a user/assistant pair whose add_interaction raised
C15_Witness ==
    /\ SaveFinished
    /\ Len(items) = 3
    /\ items[1].role = "system"
    /\ iterations = 2
    /\ index = 3
    /\ Len(attempts) = 1
    /\ attempts[1].raised = "add_interaction"
    /\ attempts[1].assistant_msg = 3

\* C16: save_memory is never left by an exception of the try block; when it has
\* returned, every user item with text that comes after a failed attempt has been
\* attempted as well, and the processed count is the number of add_interaction calls less
\* those that raised, which is the number of attempts in which nothing raised.
C16_FailuresSkipped ==
    /\ mpc # "raised"
    /\ SaveFinished =>
          /\ \A n \in DOMAIN attempts :
                attempts[n].raised # "none" =>
                    \A k \in ForwardedPositions(items) :
                        k > attempts[n].user_msg =>
                            \E m \in DOMAIN attempts : m > n /\ attempts[m].user_msg = k
          /\ processed_count
                = Len(AddCalls)
                  - Cardinality({n \in DOMAIN attempts : attempts[n].raised = "add_interaction"})
          /\ processed_count
                = Cardinality({n \in DOMAIN attempts : attempts[n].raised = "none"})

\* extract_concepts raised for the first of two user items; the second was added
C16_Witness ==
    /\ SaveFinished
    /\ Len(attempts) = 2
    /\ attempts[1].raised = "extract_concepts"
    /\ attempts[2].raised = "none"
    /\ processed_count = 1
    /\ Len(AddCalls) = 1

\* the positions of the chat items one attempt forwards
ForwardedBy(a) == {a.user_msg, a.assistant_msg} \ {0}

\* C17: every add_interaction call of save_memory forwards the text of one user item as
\* the prompt and, as the output, either "" or the text of the assistant item right after
\* that user item; no item of another role and no assistant item without a user item
\* right before it is forwarded, no item is forwarded by two calls, and there are at most
\* as many calls as user items.
C17_ForwardedItems ==
    mop = "save_memory" =>
        /\ Len(AddCalls) = Len(ReachedAdd)
        /\ \A n \in DOMAIN ReachedAdd :
              LET a == ReachedAdd[n] IN
              /\ a.user_msg \in DOMAIN items
              /\ items[a.user_msg].role = "user"
              /\ AddCalls[n].prompt = ItemText(items[a.user_msg])
              /\ a.assistant_msg = 0 => AddCalls[n].output = <<>>
              /\ a.assistant_msg # 0 =>
                    /\ a.assistant_msg = a.user_msg + 1
                    /\ items[a.assistant_msg].role = "assistant"
                    /\ AddCalls[n].output = ItemText(items[a.assistant_msg])
        /\ \A n, m \in DOMAIN ReachedAdd :
              n # m => ForwardedBy(ReachedAdd[n]) \cap ForwardedBy(ReachedAdd[m]) = {}
        /\ Len(AddCalls) <= Cardinality({k \in DOMAIN items : items[k].role = "user"})

\* an assistant item with no user item before it, a user item, a system item: one call,
\* for the user item alone
C17_Witness ==
    /\ SaveFinished
    /\ Len(items) = 3
    /\ items[1].role = "assistant" /\ items[2].role = "user" /\ items[3].role = "system"
    /\ ItemText(items[1]) # <<>> /\ ItemText(items[3]) # <<>>
    /\ Len(AddCalls) = 1
    /\ ReachedAdd[1].user_msg = 2
    /\ ReachedAdd[1].assistant_msg = 0

(***************************************************************************)
(* Claims about retries                                                    *)
(***************************************************************************)
\* C12: the repository retries nothing itself. save_memory makes at most one attempt per
\* user item, and an attempt calls add_interaction at most once, also when the attempt
\* raises; a KokoroTTSStream run issues exactly one speech request, and when the request
\* fails it raises one error and issues no other request.
C12_NoRetry ==
    /\ \A n, m \in DOMAIN attempts :
          attempts[n].user_msg = attempts[m].user_msg => n = m
    /\ mop = "save_memory" => Len(AddCalls) = Len(ReachedAdd)
    /\ requests <= 1
    /\ stream_pc \in {"open", "streaming", "done", "failed"} => requests = 1
    /\ stream_pc = "failed" => Len(tts_errors) = 1

\* add_interaction raised for the first of two user items: each was attempted once
C12_Witness ==
    /\ SaveFinished
    /\ Len(items) = 2
    /\ Len(attempts) = 2
    /\ attempts[1].raised = "add_interaction"
    /\ attempts[1].user_msg = 1 /\ attempts[2].user_msg = 2
    /\ Len(AddCalls) = 2

(***************************************************************************)
(* OllamaEmbeddingModel                                                    *)
(***************************************************************************)
\* longest embedding vector the endpoint returns
MaxDim == 2

\* self._dimension is None (no len() is negative)
NoDimension == -1

\* the fallback dimension
DefaultDimension == 768

\* the text argument: a str (its characters), or a value of another type (its repr)
Texts == [type : {"str"}, value : {<<>>, <<" ">>, <<"a">>, <<" ", "a">>}]
         \cup [type : {"NoneType"}, value : {<<"N">>}]
         \cup [type : {"int"}, value : {<<"0">>, <<"5">>}]

\* what client.embeddings.create does in one call: it raises, or returns a response with
\* an empty data list, with data[0].embedding None, or with a vector (which may be empty)
Responses ==
    [kind : {"raises", "no_data", "no_embedding"}, vec : {<<>>}]
    \cup [kind : {"vector"}, vec : SeqsUpTo({0, 1}, MaxDim)]

NoCall == [text |-> [type |-> "NoneType", value |-> <<"N">>],
           resp |-> [kind |-> "raises", vec |-> <<>>],
           dimension |-> NoDimension]

EmbInit ==
    /\ dimension = NoDimension
    /\ emb_in = NoCall
    /\ emb_out = [kind |-> "none", vec |-> <<>>, requests |-> 0]

EmbIdle ==
    /\ dimension = NoDimension
    /\ emb_in = NoCall
    /\ emb_out = [kind |-> "idle", vec |-> <<>>, requests |-> 0]

\* bool(text)
TextTruthy(text) ==
    CASE text.type = "str" -> text.value # <<>>
      [] text.type = "int" -> text.value # <<"0">>
      [] OTHER -> FALSE

\* not text or not isinstance(text, str) or not text.strip()
EmptyInput(text) ==
    \/ ~TextTruthy(text)
    \/ text.type # "str"
    \/ Strip(text.value) = <<>>

\* np.zeros(dim)
np_zeros(dim) == [k \in 1..dim |-> 0]

\* self._dimension or 768
DimensionOr(d) == IF d # NoDimension /\ d # 0 THEN d ELSE DefaultDimension

\* OllamaEmbeddingModel.initialize_embedding_dimension: len(vec), or 768 when the
\* probe raises (len(None) raises as well)
InitializeEmbeddingDimension ==
    /\ emb_out.kind # "idle"
    /\ \E resp \in Responses :
         dimension' = IF resp.kind = "vector" THEN Len(resp.vec) ELSE DefaultDimension
    /\ UNCHANGED <<emb_in, emb_out, notEmb>>

\* OllamaEmbeddingModel.get_embedding: how the call ends, the requests it sent, and
\* self._dimension after it
get_embedding(text, resp) ==
    IF EmptyInput(text)
    THEN [kind |-> "returned", vec |-> np_zeros(DimensionOr(dimension)), requests |-> 0,
          dimension |-> dimension]
    ELSE IF resp.kind \in {"raises", "no_data"}
    THEN \* except Exception
         [kind |-> "returned", vec |-> np_zeros(DimensionOr(dimension)), requests |-> 1,
          dimension |-> dimension]
    ELSE IF resp.kind = "no_embedding"
    THEN [kind |-> "returned", vec |-> np_zeros(DimensionOr(dimension)), requests |-> 1,
          dimension |-> dimension]
    ELSE [kind |-> "returned", vec |-> resp.vec, requests |-> 1,
          dimension |-> IF dimension = NoDimension THEN Len(resp.vec) ELSE dimension]

GetEmbedding ==
    /\ emb_out.kind # "idle"
    /\ \E text \in Texts, resp \in Responses :
         LET r == get_embedding(text, resp)
         IN /\ emb_in' = [text |-> text, resp |-> resp, dimension |-> dimension]
            /\ emb_out' = [kind |-> r.kind, vec |-> r.vec, requests |-> r.requests]
            /\ dimension' = r.dimension
    /\ UNCHANGED notEmb

EmbNext == InitializeEmbeddingDimension \/ GetEmbedding

(***************************************************************************)
(* Claims about get_embedding                                              *)
(***************************************************************************)
\* the text is not a string, or it is empty or holds blanks only
TextUnusable ==
    \/ emb_in.text.type # "str"
    \/ \A k \in DOMAIN emb_in.text.value : emb_in.text.value[k] = " "

\* the call has no embedding to return
NoEmbedding == TextUnusable \/ emb_in.resp.kind # "vector"

\* v is the all-zero vector of length n
IsZeroVector(v, n) == Len(v) = n /\ \A k \in DOMAIN v : v[k] = 0

\* C13 as stated: get_embedding never raises; without an embedding to return it returns
\* the all-zero vector whose length is the cached dimension when one is cached and 768
\* otherwise; for an unusable text it sends no request.
C13_ZeroVectorAsClaimed ==
    emb_out.kind \notin {"none", "idle"} =>
        /\ emb_out.kind = "returned"
        /\ NoEmbedding =>
             IsZeroVector(emb_out.vec, IF emb_in.dimension # NoDimension
                                       THEN emb_in.dimension ELSE 768)
        /\ TextUnusable => emb_out.requests = 0

\* the part of C13 that holds: the same, for every call made while the cached dimension
\* is not 0
C13_ZeroVectorPositive ==
    emb_in.dimension # 0 => C13_ZeroVectorAsClaimed

(***************************************************************************)
(* Specifications: one per component, the others idle                      *)
(***************************************************************************)
InitEntry == EntryInit /\ ConfigIdle /\ STTIdle /\ TTSIdle /\ MemIdle /\ LoadIdle /\ EmbIdle

SpecEntry == InitEntry /\ [][EntryNext]_vars

InitConfig == ConfigInit /\ EntryIdle /\ STTIdle /\ TTSIdle /\ MemIdle /\ LoadIdle /\ EmbIdle

SpecConfig == InitConfig /\ [][ConfigNext]_vars

InitSTT == STTInit /\ EntryIdle /\ ConfigIdle /\ TTSIdle /\ MemIdle /\ LoadIdle /\ EmbIdle

SpecSTT == InitSTT /\ [][STTNext]_vars

InitTTS == TTSInit /\ EntryIdle /\ ConfigIdle /\ STTIdle /\ MemIdle /\ LoadIdle /\ EmbIdle

SpecTTS == InitTTS /\ [][TTSNext]_vars

InitMem == MemInit /\ EntryIdle /\ ConfigIdle /\ STTIdle /\ TTSIdle /\ LoadIdle /\ EmbIdle

SpecMem == InitMem /\ [][MemNext]_vars


\* a run of save_memory, or a run of a KokoroTTSStream
InitRetry == InitMem \/ InitTTS

RetryNext == MemNext \/ TTSNext

SpecRetry == InitRetry /\ [][RetryNext]_vars

InitLoad == LoadInit /\ EntryIdle /\ ConfigIdle /\ STTIdle /\ TTSIdle /\ MemIdle /\ EmbIdle

SpecLoad == InitLoad /\ [][LoadNext]_vars

InitEmb == EmbInit /\ EntryIdle /\ ConfigIdle /\ STTIdle /\ TTSIdle /\ MemIdle /\ LoadIdle

SpecEmb == InitEmb /\ [][EmbNext]_vars
=============================================================================
